---- MODULE Spec2Model ----
(***************************************************************************)
(* A model of the tethys tournament core: the Game Runner's loop           *)
(* (internal/engine/runner.go), the UCI Protocol Client it drives          *)
(* (engine/uci.go), the configuration store's assignment cursor            *)
(* (internal/configstore/store.go), the Live Broadcaster and the Position  *)
(* Analyzer.                                                               *)
(*                                                                         *)
(* Goroutines are processes.  A blocking call on a Protocol Client is a    *)
(* small state machine kept in the client's record (op, step, res); the    *)
(* owner of the client starts a call and resumes when step = "done".       *)
(* The engine subprocess is the environment: what it writes, whether it    *)
(* dies or falls silent is chosen at the client's reads and writes.        *)
(***************************************************************************)
EXTENDS Integers, Sequences, FiniteSets, TLC

\* ---------------------------------------------------------------- bounds
MaxGames == 2
MaxPliesCfg == 2
BookMaxPliesCfg == 1
MaxInitLines == 2
MaxSubs == 4
MaxWorkers == 3
MaxDepth == 2
MaxCalls == 4
MaxCount == 2
MaxCursor == 2
MaxBookVer == 2

\* ------------------------------------------------------ program constants
RestartCap == 1
SlotCap == 1

\* The tasks that call Stop concurrently.
Stoppers == {"t1", "t2"}

VARIABLES
    \* Runner
    pc, phase, stopped, restartTok, live, seq, cfg, asg, deferred,
    moves, bookPlies, outcome, best, records, term,
    \* the callers of Stop, and whether one of them has closed a closed channel
    stopCall, panicked,
    \* the modification time of the book file, and r.bookMod (0: no book loaded)
    bookFile, bookMod,
    \* Protocol Clients
    eng,
    \* Broadcaster
    bnext, subs, closed,
    \* Analyzer; amu is the holder of a.mu (0 when it is free)
    jobs, latest, evals, workers, callers, amu,
    \* a reader of the Runner's LiveState, and the applied ply (game, number of
    \* moves) for which the Runner last called Publish
    snap, pulsed,
    \* the Scheduler: the configuration file, the store's mutex, the callers of
    \* a scheduling call, the play counts, and the Runner's in-memory cursor
    skind, sdisk, sdiskOk, smu, sched, pickIdx, counts,
    \* what the scheduling calls have returned so far
    hist, slog, s0, allCounted, lastMin, lastCursor

stopVars == <<stopCall, panicked>>
bookVars == <<bookFile, bookMod>>
runnerVars == <<pc, phase, stopped, restartTok, live, seq, cfg, asg, deferred,
                moves, bookPlies, outcome, best, records, term, stopVars,
                bookVars>>
bcastVars == <<bnext, subs, closed>>
analyzerVars == <<jobs, latest, evals, workers, callers, amu>>
readerVars == <<snap, pulsed>>
schedVars == <<skind, sdisk, sdiskOk, smu, sched, pickIdx, counts,
               hist, slog, s0, allCounted, lastMin, lastCursor>>
\* The Runner's variables but the store's configuration.
loopVars == <<pc, phase, stopped, restartTok, live, seq, asg, deferred,
              moves, bookPlies, outcome, best, records, term, stopVars,
              bookVars>>
vars == <<runnerVars, eng, bcastVars, analyzerVars, readerVars, schedVars>>

\* ------------------------------------------------------- Protocol Client
Clients == {"w", "b"}
Tokens == {"legal", "illegal", "none"}
RupSteps == {"rup_select", "rup_read"}
BmSteps == {"bm_read", "bm_ctx"}

\* The results of a call that are errors of the pipes or of the process.
IOErrors == {"spawn_err", "send_err", "eof"}

\* NewUCIEngine: no process, no pipes, no call in progress.  ready tells that
\* Start has returned without error, failed that a call has returned an I/O
\* error; line is the last line BestMoveMovetime has read.
NewUCIEngine ==
    [proc |-> "none", stdin |-> "nil", hung |-> FALSE, cancelled |-> FALSE,
     op |-> "none", step |-> "idle", res |-> "", tok |-> "", timer |-> FALSE,
     todo |-> 0, killed |-> FALSE, ready |-> FALSE, failed |-> FALSE,
     line |-> <<>>]

FirstStep(op) ==
    CASE op = "Start" -> "spawn"
      [] op = "Init" -> "init_send"
      [] op = "IsReady" -> "send"
      [] op = "NewGame" -> "send_new"
      [] op = "Best" -> "bm_pos"
      [] op = "Close" -> "close_quit"

\* The owner enters a call on client e; n is the number of init lines (Init)
\* or the number of moves in the move list (Best).
Call(e, op, n) ==
    [e EXCEPT !.op = op, !.res = "", !.tok = "", !.timer = FALSE,
              !.todo = n,
              !.step = IF op = "Init" /\ n = 0 THEN "send" ELSE FirstStep(op)]

\* The call returns r to the owner; its timer is stopped (defer deadline.Stop()).
Finish(e, r) ==
    [e EXCEPT !.step = "done", !.res = r, !.timer = FALSE, !.todo = 0,
              !.ready = @ \/ (e.op = "Start" /\ r = "ok"),
              !.failed = @ \/ r \in IOErrors]

\* The owner has taken the result: the call's frame is gone.
Returned(e) ==
    [e EXCEPT !.op = "none", !.step = "idle", !.res = "", !.tok = "", !.line = <<>>]

\* Start: cmd.Start() either fails (no child) or leaves a running child.
Spawn(c) ==
    /\ eng[c].step = "spawn"
    /\ \/ eng' = [eng EXCEPT ![c] = Finish([@ EXCEPT !.stdin = "open"], "spawn_err")]
       \/ eng' = [eng EXCEPT ![c] = [@ EXCEPT !.proc = "running", !.stdin = "open",
                                               !.step = "send"]]
    /\ UNCHANGED <<runnerVars, bcastVars, analyzerVars, readerVars, schedVars>>

AfterSend(e) ==
    CASE e.step = "send" -> [e EXCEPT !.step = "rup_select", !.timer = FALSE]
      [] e.step = "send_new" -> [e EXCEPT !.step = "send"]
      [] e.step = "init_send" ->
            [e EXCEPT !.todo = @ - 1, !.step = IF e.todo > 1 THEN "init_send" ELSE "send"]
      [] e.step = "bm_pos" -> [e EXCEPT !.step = "bm_send"]
      [] e.step = "bm_send" -> [e EXCEPT !.step = "bm_read"]

\* The steps of a call that write a command line: "uci" or "isready",
\* "ucinewgame", an init line, "position ...", "go movetime ...".
SendSteps == {"send", "send_new", "init_send", "bm_pos", "bm_send"}

\* Send: io.WriteString on the child's stdin; fails once the child is gone.
Send(c) ==
    /\ eng[c].step \in SendSteps
    /\ \/ /\ eng[c].proc = "running"
          /\ eng' = [eng EXCEPT ![c] = AfterSend(@)]
       \/ /\ eng[c].proc = "running" /\ ~eng[c].hung
          /\ eng' = [eng EXCEPT ![c] = Finish([@ EXCEPT !.proc = "exited"], "send_err")]
       \/ /\ eng[c].proc = "exited"
          /\ eng' = [eng EXCEPT ![c] = Finish(@, "send_err")]
    /\ UNCHANGED <<runnerVars, bcastVars, analyzerVars, readerVars, schedVars>>

\* ReadUntilPrefix, the select: ctx.Done and the deadline are looked at only
\* here; the default branch goes into the blocking ReadString.
RupSelect(c) ==
    /\ eng[c].step = "rup_select"
    /\ \/ /\ eng[c].cancelled
          /\ eng' = [eng EXCEPT ![c] = Finish(@, "ctx")]
       \/ /\ eng[c].timer
          /\ eng' = [eng EXCEPT ![c] = Finish(@, "timeout")]
       \/ /\ ~eng[c].cancelled /\ ~eng[c].timer
          /\ eng' = [eng EXCEPT ![c] = [@ EXCEPT !.step = "rup_read"]]
    /\ UNCHANGED <<runnerVars, bcastVars, analyzerVars, readerVars, schedVars>>

\* ReadUntilPrefix, the ReadString: returns only when the child writes a line
\* or its stream ends; a silent child (hung) keeps the reader blocked.
RupRead(c) ==
    /\ eng[c].step = "rup_read"
    /\ \/ /\ eng[c].proc = "running" /\ ~eng[c].hung
          /\ \/ eng' = [eng EXCEPT ![c] = Finish(@, "ok")]
             \/ eng' = [eng EXCEPT ![c] = [@ EXCEPT !.step = "rup_select"]]
             \/ eng' = [eng EXCEPT ![c] = Finish([@ EXCEPT !.proc = "exited"], "eof")]
             \/ eng' = [eng EXCEPT ![c] = [@ EXCEPT !.hung = TRUE]]
       \/ /\ eng[c].proc = "exited"
          /\ eng' = [eng EXCEPT ![c] = Finish(@, "eof")]
    /\ UNCHANGED <<runnerVars, bcastVars, analyzerVars, readerVars, schedVars>>

\* time.NewTimer(timeout): the deadline channel becomes ready.
Deadline(c) ==
    /\ eng[c].step \in RupSteps
    /\ ~eng[c].timer
    /\ eng' = [eng EXCEPT ![c] = [@ EXCEPT !.timer = TRUE]]
    /\ UNCHANGED <<runnerVars, bcastVars, analyzerVars, readerVars, schedVars>>

\* A line is a sequence of words and blanks.  The lines an engine writes
\* during a search: a best move with its move token, the marker alone, the
\* marker and a blank, and a line that is no best move.
Marker == <<"bestmove", " ">>
BmLines ==
    {<<"bestmove", " ", t>> : t \in Tokens}
        \cup {<<"bestmove">>, <<"bestmove", " ">>, <<"info">>}

\* strings.TrimSpace, strings.HasPrefix, strings.Fields
RECURSIVE TrimSpace(_)
TrimSpace(l) ==
    IF l = <<>> THEN l
    ELSE IF Head(l) = " " THEN TrimSpace(Tail(l))
    ELSE IF l[Len(l)] = " " THEN TrimSpace(SubSeq(l, 1, Len(l) - 1))
    ELSE l
HasPrefix(l, p) == Len(l) >= Len(p) /\ SubSeq(l, 1, Len(p)) = p
Fields(l) == SelectSeq(l, LAMBDA x : x # " ")

\* BestMoveMovetime, lines 149-161: what it does with the line it has read.
BmLine(e, l) ==
    LET line == TrimSpace(l) IN
    IF HasPrefix(line, Marker)
      THEN IF Len(Fields(line)) >= 2
             THEN Finish([e EXCEPT !.tok = Fields(line)[2], !.line = l], "ok")
             ELSE Finish([e EXCEPT !.line = l], "malformed")
      ELSE [e EXCEPT !.step = "bm_ctx", !.line = l]

\* BestMoveMovetime, the ReadString of its loop.
BmRead(c) ==
    /\ eng[c].step = "bm_read"
    /\ \/ /\ eng[c].proc = "running" /\ ~eng[c].hung
          /\ \/ \E l \in BmLines : eng' = [eng EXCEPT ![c] = BmLine(@, l)]
             \/ eng' = [eng EXCEPT ![c] = Finish([@ EXCEPT !.proc = "exited"], "eof")]
             \/ eng' = [eng EXCEPT ![c] = [@ EXCEPT !.hung = TRUE]]
       \/ /\ eng[c].proc = "exited"
          /\ eng' = [eng EXCEPT ![c] = Finish(@, "eof")]
    /\ UNCHANGED <<runnerVars, bcastVars, analyzerVars, readerVars, schedVars>>

\* BestMoveMovetime, the ctx.Done check after a line that is no best move.
BmCtx(c) ==
    /\ eng[c].step = "bm_ctx"
    /\ \/ /\ eng[c].cancelled
          /\ eng' = [eng EXCEPT ![c] = Finish(@, "ctx")]
       \/ /\ ~eng[c].cancelled
          /\ eng' = [eng EXCEPT ![c] = [@ EXCEPT !.step = "bm_read"]]
    /\ UNCHANGED <<runnerVars, bcastVars, analyzerVars, readerVars, schedVars>>

\* Close that sends quit but leaves stdin open.
CloseQuit_KeepStdin(c) ==
    /\ eng[c].step = "close_quit"
    /\ eng' = [eng EXCEPT ![c] = [@ EXCEPT !.step = "close_wait"]]
    /\ UNCHANGED <<runnerVars, bcastVars, analyzerVars, readerVars, schedVars>>

\* Close: send quit (error ignored) and close stdin.
CloseQuit(c) ==
    /\ eng[c].step = "close_quit"
    /\ eng' = [eng EXCEPT ![c] = [@ EXCEPT !.stdin = "closed", !.step = "close_wait"]]
    /\ UNCHANGED <<runnerVars, bcastVars, analyzerVars, readerVars, schedVars>>

\* The child exits by itself after quit / end of input (it need not).
EngineQuits(c) ==
    /\ eng[c].step = "close_wait"
    /\ eng[c].proc = "running"
    /\ eng' = [eng EXCEPT ![c] = [@ EXCEPT !.proc = "exited"]]
    /\ UNCHANGED <<runnerVars, bcastVars, analyzerVars, readerVars, schedVars>>

\* Close without the kill after 2 s: it only waits for the child.
CloseWait_NoKill(c) ==
    /\ eng[c].step = "close_wait"
    /\ eng[c].proc = "exited"
    /\ eng' = [eng EXCEPT ![c] = Finish([@ EXCEPT !.proc = "reaped"], "ok")]
    /\ UNCHANGED <<runnerVars, bcastVars, analyzerVars, readerVars, schedVars>>

\* Close: cmd.Wait() returns once the child has exited; after 2 s a child
\* that is still running is killed, and Wait then returns.
CloseWait(c) ==
    /\ eng[c].step = "close_wait"
    /\ \/ /\ eng[c].proc = "exited"
          /\ eng' = [eng EXCEPT ![c] = Finish([@ EXCEPT !.proc = "reaped"], "ok")]
       \/ /\ eng[c].proc = "running"
          /\ eng' = [eng EXCEPT ![c] =
                        Finish([@ EXCEPT !.proc = "reaped", !.killed = TRUE], "ok")]
    /\ UNCHANGED <<runnerVars, bcastVars, analyzerVars, readerVars, schedVars>>

\* exec.CommandContext: once ctx is done the child is killed (not waited for).
KillOnCancel(c) ==
    /\ eng[c].cancelled
    /\ eng[c].proc = "running"
    /\ eng' = [eng EXCEPT ![c] = [@ EXCEPT !.proc = "exited"]]
    /\ UNCHANGED <<runnerVars, bcastVars, analyzerVars, readerVars, schedVars>>

\* The steps of the call in progress on client c.
CallStep(c) ==
    \/ Spawn(c) \/ Send(c) \/ RupSelect(c) \/ RupRead(c)
    \/ BmRead(c) \/ BmCtx(c) \/ CloseQuit(c) \/ CloseWait(c)

ClientStep(c) == CallStep(c) \/ Deadline(c) \/ KillOnCancel(c) \/ EngineQuits(c)


\* ---------------------------------------------------------- Broadcaster
\* Publish with a blocking (queueing) send instead of the select / default.
Publish_Queue(s) ==
    [id \in DOMAIN s |-> [s[id] EXCEPT !.buf = @ + 1]]

\* subs maps a subscriber id to its channel: buf is the number of buffered
\* pulses; coalesced records that a pulse was dropped since the last receive.
\* Publish: a non-blocking send on every subscriber's one-slot channel.
Publish(s) ==
    [id \in DOMAIN s |->
        IF s[id].buf < SlotCap
          THEN [s[id] EXCEPT !.buf = @ + 1]
          ELSE [s[id] EXCEPT !.coalesced = TRUE]]

\* Publish() whose send waits until the subscriber's slot is free.
PublishCall_Blocking ==
    /\ \A id \in DOMAIN subs : subs[id].buf < SlotCap
    /\ subs' = Publish(subs)
    /\ UNCHANGED <<bnext, closed, runnerVars, eng, analyzerVars, readerVars, schedVars>>

\* Publish() called by a task other than the Runner.  Every send is a select
\* with a default branch, so the call has no guard: it runs to its end in
\* whatever state the subscribers' channels are.
PublishCall ==
    /\ subs' = Publish(subs)
    /\ UNCHANGED <<bnext, closed, runnerVars, eng, analyzerVars, readerVars, schedVars>>

\* Subscribe: a fresh id and a channel of capacity 1 entered in the table.
Subscribe ==
    /\ bnext < MaxSubs
    /\ subs' = [id \in DOMAIN subs \cup {bnext} |->
                  IF id = bnext THEN [buf |-> 0, coalesced |-> FALSE] ELSE subs[id]]
    /\ bnext' = bnext + 1
    /\ UNCHANGED <<closed, runnerVars, eng, analyzerVars, readerVars, schedVars>>

\* closed[id] counts the close() calls made on id's channel (n) and the calls
\* of its unsubscribe function (calls, counted up to 2).
Called(x) == [x EXCEPT !.calls = IF @ < 2 THEN @ + 1 ELSE @]

\* The unsubscribe function without the look at the table: it closes the
\* channel at every call.
Unsubscribe_NoCheck(id) ==
    /\ id < bnext
    /\ subs' = [i \in DOMAIN subs \ {id} |-> subs[i]]
    /\ closed' = [closed EXCEPT ![id] = [Called(@) EXCEPT !.n = @ + 1]]
    /\ UNCHANGED <<bnext, runnerVars, eng, analyzerVars, readerVars, schedVars>>

\* The unsubscribe function of subscriber id (an id that Subscribe has handed
\* out): removes it and closes its channel if it is still in the table, else
\* does nothing.
Unsubscribe(id) ==
    /\ id < bnext
    /\ \/ /\ id \in DOMAIN subs
          /\ subs' = [i \in DOMAIN subs \ {id} |-> subs[i]]
          /\ closed' = [closed EXCEPT ![id] = [Called(@) EXCEPT !.n = @ + 1]]
       \/ /\ id \notin DOMAIN subs
          /\ closed' = [closed EXCEPT ![id] = Called(@)]
          /\ UNCHANGED subs
    /\ UNCHANGED <<bnext, runnerVars, eng, analyzerVars, readerVars, schedVars>>

\* SSEHandler: the subscriber takes the pulse out of its channel.
Receive(id) ==
    /\ id \in DOMAIN subs
    /\ subs[id].buf > 0
    /\ subs' = [subs EXCEPT ![id] = [buf |-> subs[id].buf - 1, coalesced |-> FALSE]]
    /\ UNCHANGED <<bnext, closed, runnerVars, eng, analyzerVars, readerVars, schedVars>>

\* ------------------------------------------------------ configuration store
Engines == {"A", "B"}
ConfigPairs ==
    { <<>>,
      << <<"A", "A">> >>,
      << <<"A", "B">> >>,
      << <<"A", "B">>, <<"A", "A">> >>,
      << <<"A", "X">> >> }

ValidPair(p) == p[1] \in Engines /\ p[2] \in Engines
validPairs(c) == SelectSeq(c.pairs, ValidPair)
PairIdx(c) ==
    IF c.idx < 0 \/ c.idx >= Len(validPairs(c)) THEN 0 ELSE c.idx

EmptyAssignment == [White |-> "", Black |-> "", Selfplay |-> FALSE]

\* GetAndToggleAssignment: the assignment it returns for configuration c.
Assignment(c) ==
    IF Len(validPairs(c)) = 0 THEN EmptyAssignment
    ELSE LET pair == validPairs(c)[PairIdx(c) + 1] IN
         IF pair[1] = pair[2]
           THEN [White |-> pair[1], Black |-> pair[1], Selfplay |-> TRUE]
         ELSE IF c.swap
           THEN [White |-> pair[2], Black |-> pair[1], Selfplay |-> FALSE]
         ELSE [White |-> pair[1], Black |-> pair[2], Selfplay |-> FALSE]

\* GetAndToggleAssignment whose index never moves on.
Toggle_NoAdvance(c) ==
    IF Len(validPairs(c)) = 0 THEN c
    ELSE [c EXCEPT !.swap = ~c.swap]

\* GetAndToggleAssignment: the cursor it leaves in s.cfg.
Toggle(c) ==
    IF Len(validPairs(c)) = 0 THEN c
    ELSE LET pair == validPairs(c)[PairIdx(c) + 1] IN
         IF pair[1] = pair[2] \/ c.swap
           THEN [c EXCEPT !.idx = (PairIdx(c) + 1) % Len(validPairs(c)), !.swap = FALSE]
         ELSE [c EXCEPT !.swap = TRUE]

\* ------------------------------------------------------------- Runner
Outcomes == {"NoOutcome", "WhiteWon", "BlackWon", "Draw"}

\* outcomeToResult
outcomeToResult(o) ==
    CASE o = "WhiteWon" -> "1-0"
      [] o = "BlackWon" -> "0-1"
      [] o = "Draw" -> "1/2-1/2"
      [] OTHER -> "*"

\* The client that plays Black: the White client itself in self-play.
BlackClient == IF asg.Selfplay THEN "w" ELSE "b"
\* The client of the side to move (White moves on even ply counts).
SideToMove == IF moves % 2 = 0 THEN "w" ELSE BlackClient

PhaseClient(ph) ==
    CASE ph \in {"startW", "initW", "newW"} -> "w"
      [] ph = "startB" -> "b"
      [] ph \in {"initB", "newB"} -> BlackClient
      [] ph = "best" -> SideToMove

PhaseError(ph) ==
    CASE ph = "startW" -> "white start error"
      [] ph = "startB" -> "black start error"
      [] ph = "initW" -> "white init error"
      [] ph = "initB" -> "black init error"
      [] ph = "newW" -> "white newgame error"
      [] ph = "newB" -> "black newgame error"
      [] ph = "best" -> "bestmove error"

\* InsertFinishedGame: one row appended to the games table.
InsertFinishedGame(result, termination) ==
    records' = Append(records,
                 [game |-> seq, white |-> asg.White, black |-> asg.Black,
                  result |-> result, termination |-> termination,
                  moves |-> moves, bookPlies |-> bookPlies])

\* failGame: LiveState finished with the result, then Publish.
failGame(result, termination) ==
    /\ live' = [live EXCEPT !.Status = "finished", !.Result = result]
    /\ subs' = Publish(subs)
    /\ term' = termination
    /\ UNCHANGED records

\* Stop: close(r.stop) unless already closed.
Stop ==
    /\ stopped' = TRUE
    /\ UNCHANGED <<pc, phase, restartTok, live, seq, cfg, asg, deferred, moves,
                   bookPlies, outcome, best, records, term, eng, bcastVars,
                   analyzerVars, readerVars, schedVars,
                   stopVars, bookVars>>

\* Stop, lines 83-85, by task t (a panic has ended the process and all its
\* tasks): the receive on r.stop finds the channel
\* closed and Stop returns, or finds nothing and takes the default branch.
StopCheck(t) ==
    /\ ~panicked
    /\ stopCall[t] = "idle"
    /\ stopCall' = [stopCall EXCEPT ![t] = IF stopped THEN "idle" ELSE "close"]
    /\ UNCHANGED <<pc, phase, stopped, restartTok, live, seq, cfg, asg, deferred,
                   moves, bookPlies, outcome, best, records, term, panicked,
                   bookVars, eng, bcastVars, analyzerVars, readerVars, schedVars>>

\* Stop, lines 86-87, by task t: close(r.stop); closing a channel that is
\* closed already panics.
StopClose(t) ==
    /\ ~panicked
    /\ stopCall[t] = "close"
    /\ stopCall' = [stopCall EXCEPT ![t] = "idle"]
    /\ stopped' = TRUE
    /\ panicked' = (panicked \/ stopped)
    /\ UNCHANGED <<pc, phase, restartTok, live, seq, cfg, asg, deferred, moves,
                   bookPlies, outcome, best, records, term, bookVars, eng,
                   bcastVars, analyzerVars, readerVars, schedVars>>

\* Restart: a non-blocking send on the one-slot restart channel.
Restart ==
    /\ restartTok' = IF restartTok < RestartCap THEN restartTok + 1 ELSE restartTok
    /\ UNCHANGED <<pc, phase, stopped, live, seq, cfg, asg, deferred, moves,
                   bookPlies, outcome, best, records, term, eng, bcastVars,
                   analyzerVars, readerVars, schedVars,
                   stopVars, bookVars>>

\* loop, lines 121-127: the stop check at the top of the outer loop.
LoopTop ==
    /\ pc = "top"
    /\ \/ /\ stopped
          /\ pc' = "returned"
       \/ /\ ~stopped
          /\ seq < MaxGames
          /\ pc' = "select"
    /\ UNCHANGED <<phase, stopped, restartTok, live, seq, cfg, asg, deferred, moves,
                   bookPlies, outcome, best, records, term, eng, bcastVars,
                   analyzerVars, readerVars, schedVars,
                   stopVars, bookVars>>

\* The selection step without the look at the assignment's engine paths: a
\* game is begun with whatever assignment the store returns.
SelectAssignment_NoIdle ==
    /\ pc = "select"
    /\ \/ \* saveLocked fails: the cursor in memory has already moved
          /\ cfg' = Toggle(cfg)
          /\ live' = [live EXCEPT !.Status = "error", !.Result = "config error"]
          /\ pc' = "cancel"
          /\ UNCHANGED <<phase, seq, asg, deferred, moves, bookPlies, outcome,
                         best, term, eng, subs>>
       \/ /\ cfg' = Toggle(cfg)
          /\ asg' = Assignment(cfg)
          /\ seq' = seq + 1
          /\ live' = [live EXCEPT !.GameID = seq + 1, !.Status = "running",
                                  !.Result = "*", !.Moves = 0]
          /\ subs' = Publish(subs)
          /\ eng' = [c \in Clients |->
                        IF c = "w" THEN Call(NewUCIEngine, "Start", 0)
                        ELSE NewUCIEngine]
          /\ phase' = "startW"
          /\ pc' = "call"
          /\ deferred' = <<>>
          /\ moves' = 0
          /\ bookPlies' = 0
          /\ outcome' = "NoOutcome"
          /\ best' = ""
          /\ term' = ""
    /\ UNCHANGED <<stopped, restartTok, records, bnext, closed, analyzerVars, readerVars, schedVars,
                   stopVars, bookVars>>

\* loop, lines 131-178: assignment selection up to the creation of the clients.
SelectAssignment ==
    /\ pc = "select"
    /\ \/ \* saveLocked fails: the cursor in memory has already moved
          /\ cfg' = Toggle(cfg)
          /\ live' = [live EXCEPT !.Status = "error", !.Result = "config error"]
          /\ pc' = "cancel"
          /\ UNCHANGED <<phase, seq, asg, deferred, moves, bookPlies, outcome,
                         best, term, eng, subs>>
       \/ /\ Assignment(cfg) = EmptyAssignment
          /\ cfg' = Toggle(cfg)
          /\ live' = [live EXCEPT !.Status = "idle",
                                  !.Result = "configure engines in /admin"]
          /\ pc' = "cancel"
          /\ UNCHANGED <<phase, seq, asg, deferred, moves, bookPlies, outcome,
                         best, term, eng, subs>>
       \/ /\ Assignment(cfg) # EmptyAssignment
          /\ cfg' = Toggle(cfg)
          /\ asg' = Assignment(cfg)
          /\ seq' = seq + 1
          /\ live' = [live EXCEPT !.GameID = seq + 1, !.Status = "running",
                                  !.Result = "*", !.Moves = 0]
          /\ subs' = Publish(subs)
          /\ eng' = [c \in Clients |->
                        IF c = "w" THEN Call(NewUCIEngine, "Start", 0)
                        ELSE NewUCIEngine]
          /\ phase' = "startW"
          /\ pc' = "call"
          /\ deferred' = <<>>
          /\ moves' = 0
          /\ bookPlies' = 0
          /\ outcome' = "NoOutcome"
          /\ best' = ""
          /\ term' = ""
    /\ UNCHANGED <<stopped, restartTok, records, bnext, closed, analyzerVars, readerVars, schedVars,
                   stopVars, bookVars>>

\* The phase that follows a successful call of phase ph.
NextPhase(ph) ==
    CASE ph = "startW" -> IF asg.Selfplay THEN "initW" ELSE "startB"
      [] ph = "startB" -> "initW"
      [] ph = "initW" -> "initB"
      [] ph = "initB" -> "newW"
      [] ph = "newW" -> IF asg.Selfplay THEN "ply" ELSE "newB"
      [] ph = "newB" -> "ply"

PhaseOp(ph) ==
    CASE ph \in {"startW", "startB"} -> "Start"
      [] ph \in {"initW", "initB"} -> "Init"
      [] ph \in {"newW", "newB"} -> "NewGame"
      [] ph = "best" -> "Best"

\* loop, lines 180-226: a start, init or new-game call has returned.
SetupReturn ==
    /\ pc = "call"
    /\ phase # "best"
    /\ eng[PhaseClient(phase)].step = "done"
    /\ \/ /\ eng[PhaseClient(phase)].res # "ok"
          /\ failGame("*", PhaseError(phase))
          /\ pc' = "ret"
          /\ eng' = [eng EXCEPT ![PhaseClient(phase)] = Returned(@)]
          /\ UNCHANGED <<phase, deferred>>
       \/ /\ eng[PhaseClient(phase)].res = "ok"
          /\ deferred' = IF phase \in {"startW", "startB"}
                           THEN Append(deferred, PhaseClient(phase))
                           ELSE deferred
          /\ \/ /\ NextPhase(phase) # "ply"
                /\ phase' = NextPhase(phase)
                /\ \E n \in 0..MaxInitLines :
                      eng' = [[eng EXCEPT ![PhaseClient(phase)] = Returned(@)]
                                EXCEPT ![PhaseClient(NextPhase(phase))] =
                                   Call(@, PhaseOp(NextPhase(phase)), n)]
                /\ pc' = "call"
                /\ UNCHANGED <<live, subs, term, records>>
             \/ /\ NextPhase(phase) = "ply"
                /\ phase' = "ply"
                /\ subs' = Publish(subs)
                /\ pc' = "ply_select"
                /\ eng' = [eng EXCEPT ![PhaseClient(phase)] = Returned(@)]
                /\ UNCHANGED <<live, term, records>>
    /\ UNCHANGED <<stopped, restartTok, seq, cfg, asg, moves, bookPlies, outcome,
                   best, bnext, closed, analyzerVars, readerVars, schedVars,
                   stopVars, bookVars>>

\* loop, lines 230-239: the stop / restart check of the ply loop.
PlySelect ==
    /\ pc = "ply_select"
    /\ \/ /\ stopped
          /\ failGame("*", "service stopping")
          /\ pc' = "ret"
          /\ UNCHANGED restartTok
       \/ /\ restartTok > 0
          /\ restartTok' = restartTok - 1
          /\ failGame("*", "restarted by admin")
          /\ pc' = "ret"
       \/ /\ ~stopped /\ restartTok = 0
          /\ pc' = "ply_check"
          /\ UNCHANGED <<restartTok, live, subs, term, records>>
    /\ UNCHANGED <<phase, stopped, seq, cfg, asg, deferred, moves, bookPlies,
                   outcome, best, eng, bnext, closed, analyzerVars, readerVars, schedVars,
                   stopVars, bookVars>>

\* The ply loop without the ply cap: only the oracle's outcome ends a game.
PlyCheck_NoCap ==
    /\ pc = "ply_check"
    /\ \/ /\ outcome # "NoOutcome"
          /\ InsertFinishedGame(outcomeToResult(outcome), outcome)
          /\ live' = [live EXCEPT !.Status = "finished",
                                  !.Result = outcomeToResult(outcome)]
          /\ subs' = Publish(subs)
          /\ term' = outcome
          /\ pc' = "ret"
       \/ /\ outcome = "NoOutcome"
          /\ pc' = "ply_move"
          /\ UNCHANGED <<live, subs, term, records>>
    /\ UNCHANGED <<phase, stopped, restartTok, seq, cfg, asg, deferred, moves,
                   bookPlies, outcome, best, eng, bnext, closed, analyzerVars, readerVars, schedVars,
                   stopVars, bookVars>>

\* loop, lines 241-268: ply cap, then the rules oracle's outcome.
PlyCheck ==
    /\ pc = "ply_check"
    /\ \/ /\ moves >= cfg.maxPlies
          /\ InsertFinishedGame("1/2-1/2", "Max plies")
          /\ live' = [live EXCEPT !.Status = "finished", !.Result = "1/2-1/2"]
          /\ subs' = Publish(subs)
          /\ term' = "Max plies"
          /\ pc' = "ret"
       \/ /\ moves < cfg.maxPlies
          /\ outcome # "NoOutcome"
          /\ InsertFinishedGame(outcomeToResult(outcome), outcome)
          /\ live' = [live EXCEPT !.Status = "finished",
                                  !.Result = outcomeToResult(outcome)]
          /\ subs' = Publish(subs)
          /\ term' = outcome
          /\ pc' = "ret"
       \/ /\ moves < cfg.maxPlies
          /\ outcome = "NoOutcome"
          /\ pc' = "ply_move"
          /\ UNCHANGED <<live, subs, term, records>>
    /\ UNCHANGED <<phase, stopped, restartTok, seq, cfg, asg, deferred, moves,
                   bookPlies, outcome, best, eng, bnext, closed, analyzerVars, readerVars, schedVars,
                   stopVars, bookVars>>

\* bookMove without the limit on the ply count.
bookMove_NoLimit(ply) == cfg.book

\* bookMove: a hit needs the book enabled and ply < BookMaxPlies.
bookMove(ply) == cfg.book /\ ply < cfg.bookMaxPlies

\* loadBook, lines 346-366: the file's modification time is read at every
\* call; the cached book is used if it was loaded at that time, otherwise the
\* file is loaded and replaces it.
loadBook ==
    /\ bookMod' = bookFile
    /\ UNCHANGED bookFile

\* The book file is written again by its owner: a new modification time.
BookFileChanges ==
    /\ bookFile < MaxBookVer
    /\ bookFile' = bookFile + 1
    /\ UNCHANGED <<pc, phase, stopped, restartTok, live, seq, cfg, asg, deferred,
                   moves, bookPlies, outcome, best, records, term, stopVars,
                   bookMod, eng, bcastVars, analyzerVars, readerVars, schedVars>>

\* The search request with the start position alone, without the moves made.
PlyMove_NoMoves ==
    /\ pc = "ply_move"
    /\ \/ /\ bookMove(moves)
          /\ loadBook
          /\ \E t \in {"legal", "illegal"} : best' = t
          /\ bookPlies' = bookPlies + 1
          /\ pc' = "ply_apply"
          /\ UNCHANGED <<phase, eng>>
       \/ /\ bookMove(moves)
          /\ loadBook
          /\ phase' = "best"
          /\ eng' = [eng EXCEPT ![SideToMove] = Call(@, "Best", 0)]
          /\ pc' = "call"
          /\ UNCHANGED <<best, bookPlies>>
       \/ /\ phase' = "best"
          /\ eng' = [eng EXCEPT ![SideToMove] = Call(@, "Best", 0)]
          /\ pc' = "call"
          /\ UNCHANGED <<best, bookPlies, bookVars>>
    /\ UNCHANGED <<stopped, restartTok, live, seq, cfg, asg, deferred, moves,
                   outcome, records, term, bcastVars, analyzerVars, readerVars, schedVars,
                   stopVars>>

\* loop, lines 270-288: bookMove is consulted and gives a move, or gives none
\* (no entry for the position), or is disabled, over its limit or cannot load
\* the file; without a book move the search request goes to the engine.
PlyMove ==
    /\ pc = "ply_move"
    /\ \/ /\ bookMove(moves)
          /\ loadBook
          /\ \E t \in {"legal", "illegal"} : best' = t
          /\ bookPlies' = bookPlies + 1
          /\ pc' = "ply_apply"
          /\ UNCHANGED <<phase, eng>>
       \/ /\ bookMove(moves)
          /\ loadBook
          /\ phase' = "best"
          /\ eng' = [eng EXCEPT ![SideToMove] = Call(@, "Best", moves)]
          /\ pc' = "call"
          /\ UNCHANGED <<best, bookPlies>>
       \/ /\ phase' = "best"
          /\ eng' = [eng EXCEPT ![SideToMove] = Call(@, "Best", moves)]
          /\ pc' = "call"
          /\ UNCHANGED <<best, bookPlies, bookVars>>
    /\ UNCHANGED <<stopped, restartTok, live, seq, cfg, asg, deferred, moves,
                   outcome, records, term, bcastVars, analyzerVars, readerVars, schedVars,
                   stopVars>>

\* loop, lines 281-285: BestMoveMovetime has returned.
BestReturn ==
    /\ pc = "call"
    /\ phase = "best"
    /\ eng[SideToMove].step = "done"
    /\ \/ /\ eng[SideToMove].res # "ok"
          /\ failGame("*", PhaseError("best"))
          /\ pc' = "ret"
          /\ UNCHANGED best
       \/ /\ eng[SideToMove].res = "ok"
          /\ best' = eng[SideToMove].tok
          /\ pc' = "ply_apply"
          /\ UNCHANGED <<live, subs, term, records>>
    /\ eng' = [eng EXCEPT ![SideToMove] = Returned(@)]
    /\ UNCHANGED <<phase, stopped, restartTok, seq, cfg, asg, deferred, moves,
                   bookPlies, outcome, bnext, closed, analyzerVars, readerVars, schedVars,
                   stopVars, bookVars>>

\* The ply is applied and the move list grows, but LiveState is not updated.
PlyApply_NoSetLive ==
    /\ pc = "ply_apply"
    /\ \/ /\ best = "none"
          /\ failGame("*", "engine returned no move")
          /\ pc' = "ret"
          /\ UNCHANGED <<moves, outcome>>
       \/ /\ best = "illegal"
          /\ failGame("*", "illegal move from engine")
          /\ pc' = "ret"
          /\ UNCHANGED <<moves, outcome>>
       \/ /\ best = "legal"
          /\ moves' = moves + 1
          /\ \E o \in Outcomes : outcome' = o
          /\ live' = live
          /\ pc' = "ply_pub"
          /\ UNCHANGED <<term, records, subs>>
    /\ UNCHANGED <<phase, stopped, restartTok, seq, cfg, asg, deferred, bookPlies,
                   best, eng, bnext, closed, analyzerVars, readerVars, schedVars,
                   stopVars, bookVars>>

\* loop, lines 289-311: sentinel, decode, apply, the move appended, LiveState
\* updated with the move list.
PlyApply ==
    /\ pc = "ply_apply"
    /\ \/ /\ best = "none"
          /\ failGame("*", "engine returned no move")
          /\ pc' = "ret"
          /\ UNCHANGED <<moves, outcome>>
       \/ /\ best = "illegal"
          /\ failGame("*", "illegal move from engine")
          /\ pc' = "ret"
          /\ UNCHANGED <<moves, outcome>>
       \/ /\ best = "legal"
          /\ moves' = moves + 1
          /\ \E o \in Outcomes : outcome' = o
          /\ live' = [live EXCEPT !.Moves = moves + 1]
          /\ pc' = "ply_pub"
          /\ UNCHANGED <<term, records, subs>>
    /\ UNCHANGED <<phase, stopped, restartTok, seq, cfg, asg, deferred, bookPlies,
                   best, eng, bnext, closed, analyzerVars, readerVars, schedVars,
                   stopVars, bookVars>>

\* loop, line 312: Publish() for the ply that was applied.
PlyPublish ==
    /\ pc = "ply_pub"
    /\ subs' = Publish(subs)
    /\ pulsed' = [game |-> seq, moves |-> moves]
    /\ pc' = "ply_select"
    /\ UNCHANGED <<phase, stopped, restartTok, live, seq, cfg, asg, deferred, moves,
                   bookPlies, outcome, best, records, term, eng, bnext, closed,
                   snap, analyzerVars, schedVars,
                   stopVars, bookVars>>

\* The deferred Close calls of the iteration, last registered first.
DeferredClose ==
    /\ pc = "ret"
    /\ \/ /\ deferred # <<>>
          /\ eng' = [eng EXCEPT ![deferred[Len(deferred)]] = Call(@, "Close", 0)]
          /\ pc' = "closing"
       \/ /\ deferred = <<>>
          /\ pc' = "cancel"
          /\ UNCHANGED eng
    /\ UNCHANGED <<phase, stopped, restartTok, live, seq, cfg, asg, deferred, moves,
                   bookPlies, outcome, best, records, term, bcastVars, analyzerVars, readerVars, schedVars,
                   stopVars, bookVars>>


\* A deferred Close has returned; it leaves the list of deferred calls.
CloseReturn ==
    /\ pc = "closing"
    /\ eng[deferred[Len(deferred)]].step = "done"
    /\ deferred' = SubSeq(deferred, 1, Len(deferred) - 1)
    /\ eng' = [eng EXCEPT ![deferred[Len(deferred)]] = Returned(@)]
    /\ pc' = "ret"
    /\ UNCHANGED <<phase, stopped, restartTok, live, seq, cfg, asg, moves,
                   bookPlies, outcome, best, records, term, bcastVars,
                   analyzerVars, readerVars, schedVars,
                   stopVars, bookVars>>

\* loop, line 129: the deferred cancel() of the iteration's context.
Cancel ==
    /\ pc = "cancel"
    /\ eng' = [c \in Clients |-> [eng[c] EXCEPT !.cancelled = TRUE]]
    /\ pc' = "pause"
    /\ UNCHANGED <<phase, stopped, restartTok, live, seq, cfg, asg, deferred, moves,
                   bookPlies, outcome, best, records, term, bcastVars, analyzerVars, readerVars, schedVars,
                   stopVars, bookVars>>

\* loop, line 317: the pause between games.  The iteration's locals (the
\* assignment, the clients, the game, the move list) are out of scope; the rows
\* written for the finished game stay in the table and are not looked at again.
Pause ==
    /\ pc = "pause"
    /\ pc' = "top"
    /\ phase' = "none"
    /\ asg' = EmptyAssignment
    /\ eng' = [c \in Clients |-> NewUCIEngine]
    /\ moves' = 0
    /\ bookPlies' = 0
    /\ outcome' = "NoOutcome"
    /\ best' = ""
    /\ records' = <<>>
    /\ UNCHANGED <<stopped, restartTok, live, seq, cfg, deferred, term, bcastVars,
                   analyzerVars, readerVars, schedVars,
                   stopVars, bookVars>>

\* The zero LiveState.
NoLive == [GameID |-> 0, Status |-> "", Result |-> "", Moves |-> 0]

\* A reader holds either nothing or what a Live() call returned to it (taken):
\* val is the value it was given, ret the LiveState at the time of the call,
\* and shared tells whether it was given the Runner's own LiveState instead
\* of a copy.
NoSnap == [taken |-> FALSE, shared |-> FALSE, val |-> NoLive, ret |-> NoLive]

\* What the reader sees when it looks at what it holds.
Deref(sn) == IF sn.shared THEN live ELSE sn.val

\* Live() that hands out the Runner's LiveState itself, not a copy.
Live_Shared ==
    /\ snap' = [taken |-> TRUE, shared |-> TRUE, val |-> NoLive, ret |-> live]
    /\ UNCHANGED <<pulsed, runnerVars, eng, bcastVars, analyzerVars, schedVars>>

\* Live: under the read lock, the LiveState is copied with its move list and
\* board, and the copy is returned.
Live ==
    /\ snap' = [taken |-> TRUE, shared |-> FALSE, val |-> live, ret |-> live]
    /\ UNCHANGED <<pulsed, runnerVars, eng, bcastVars, analyzerVars, schedVars>>

LoopStep ==
    \/ LoopTop \/ SelectAssignment \/ SetupReturn \/ PlySelect \/ PlyCheck
    \/ PlyMove \/ BestReturn \/ PlyApply \/ PlyPublish \/ DeferredClose
    \/ CloseReturn
    \/ Cancel \/ Pause

\* ------------------------------------------------------------ Analyzer
Keys == {"k1", "k2"}
Callers == {"c1", "c2"}

\* The zero AnalysisInfo, and whether the latest table has an entry (ok).
NoInfo == [ok |-> FALSE, Depth |-> 0, Done |-> FALSE, Err |-> ""]

\* mergeAnalysis: fields of other override base where they are non-zero
\* (Done always).
mergeAnalysis(base, other) ==
    [ok |-> TRUE,
     Depth |-> IF other.Depth # 0 THEN other.Depth ELSE base.Depth,
     Done |-> other.Done,
     Err |-> IF other.Err # "" THEN other.Err ELSE base.Err]

\* Worker goroutines live in slots; a slot whose goroutine has ended is free.
Slots == 1..MaxWorkers
\* err is the error the goroutine has met ("" while it has met none).
NoWorker == [key |-> "", pc |-> "none", latestDepth |-> 0, err |-> ""]
IdleCaller == [pc |-> "idle", key |-> "", depth |-> 0]
FreeSlots == {w \in Slots : workers[w].pc = "none"}

\* The worker goroutines that are running for key k.
Running(k) == {w \in Slots : workers[w].key = k /\ workers[w].pc # "none"}

\* Latest, lines 48-53: the key's record is read under a.mu; nothing changes.
Latest(c, k) ==
    /\ callers[c].pc = "idle"
    /\ amu = 0
    /\ UNCHANGED <<analyzerVars, runnerVars, eng, bcastVars, readerVars, schedVars>>

\* EnsureAnalysis, lines 56-73: the durable cache is read before the lock is
\* taken.
EnsureRead(c, k) ==
    /\ callers[c].pc = "idle"
    /\ callers' = [callers EXCEPT ![c] = [pc |-> "lock", key |-> k, depth |-> evals[k]]]
    /\ UNCHANGED <<jobs, latest, evals, workers, amu, runnerVars, eng, bcastVars, readerVars, schedVars>>

\* EnsureAnalysis without the look at a.jobs: every call starts a worker.
EnsureLocked_NoJobCheck(c) ==
    /\ callers[c].pc = "lock"
    /\ amu = 0
    /\ LET k == callers[c].key
           cached == [NoInfo EXCEPT !.ok = TRUE, !.Depth = callers[c].depth]
           info == IF latest[k].ok THEN mergeAnalysis(cached, latest[k]) ELSE cached
       IN /\ FreeSlots # {}
          /\ jobs' = jobs \cup {k}
          /\ LET w == CHOOSE x \in FreeSlots : \A y \in FreeSlots : x <= y IN
             workers' = [workers EXCEPT ![w] =
                            [key |-> k, pc |-> "setup", latestDepth |-> 0, err |-> ""]]
          /\ latest' = [latest EXCEPT ![k] = info]
    /\ callers' = [callers EXCEPT ![c] = IdleCaller]
    /\ UNCHANGED <<evals, amu, runnerVars, eng, bcastVars, readerVars, schedVars>>

\* EnsureAnalysis, lines 75-87: under a.mu, merge with the latest record, start
\* a worker unless the key has a job, store and return the record.
EnsureLocked(c) ==
    /\ callers[c].pc = "lock"
    /\ amu = 0
    /\ LET k == callers[c].key
           cached == [NoInfo EXCEPT !.ok = TRUE, !.Depth = callers[c].depth]
           info == IF latest[k].ok THEN mergeAnalysis(cached, latest[k]) ELSE cached
       IN /\ \/ /\ k \notin jobs
                /\ FreeSlots # {}
                /\ jobs' = jobs \cup {k}
                /\ LET w == CHOOSE x \in FreeSlots : \A y \in FreeSlots : x <= y IN
                   workers' = [workers EXCEPT ![w] =
                                  [key |-> k, pc |-> "setup", latestDepth |-> 0, err |-> ""]]
             \/ /\ k \in jobs
                /\ UNCHANGED <<jobs, workers>>
          /\ latest' = [latest EXCEPT ![k] = info]
    /\ callers' = [callers EXCEPT ![c] = IdleCaller]
    /\ UNCHANGED <<evals, amu, runnerVars, eng, bcastVars, readerVars, schedVars>>

\* updateError: under a.mu the record keeps its fields and gets the error text.
updateError(k, msg) ==
    /\ amu = 0
    /\ latest' = [latest EXCEPT ![k] = [@ EXCEPT !.ok = TRUE, !.Err = msg]]
    /\ amu' = 0

\* updateDone: under a.mu the record is flagged done.
updateDone(k) ==
    /\ amu = 0
    /\ latest' = [latest EXCEPT ![k] = [@ EXCEPT !.ok = TRUE, !.Done = TRUE]]
    /\ amu' = 0

\* updateLatest that goes on to the cache write with a.mu still held.
updateLatest_KeepsLock(w, k, d) ==
    /\ amu = 0
    /\ latest' = [latest EXCEPT ![k] =
                     [ok |-> TRUE, Depth |-> d, Done |-> FALSE, Err |-> latest[k].Err]]
    /\ amu' = w

\* updateLatest, lines 166-170: under a.mu the record is replaced by the update
\* with the record's current Err; a.mu is released before the cache write.
updateLatest(w, k, d) ==
    /\ amu = 0
    /\ latest' = [latest EXCEPT ![k] =
                     [ok |-> TRUE, Depth |-> d, Done |-> FALSE, Err |-> latest[k].Err]]
    /\ amu' = 0

\* run, lines 97-130: configuration, engine row, Start, init, position and go.
\* Each of them can fail; the record then gets that step's error text (here
\* one text for all of them) and the worker returns.
WorkerSetup(w) ==
    /\ workers[w].pc = "setup"
    /\ \/ /\ updateError(workers[w].key, "engine setup error")
          /\ workers' = [workers EXCEPT ![w].pc = "defer",
                                        ![w].err = "engine setup error"]
       \/ /\ workers' = [workers EXCEPT ![w].pc = "read"]
          /\ UNCHANGED <<latest, amu>>
    /\ UNCHANGED <<jobs, evals, callers, runnerVars, eng, bcastVars, readerVars, schedVars>>

\* run whose read loop returns on a read error without updateError.
WorkerRead_SilentError(w) ==
    /\ workers[w].pc = "read"
    /\ LET k == workers[w].key IN
       \/ /\ UNCHANGED <<latest, amu>>
          /\ workers' = [workers EXCEPT ![w].pc = "defer",
                                        ![w].err = "engine read error"]
       \/ /\ updateDone(k)
          /\ workers' = [workers EXCEPT ![w].pc = "defer"]
       \/ \E d \in 1..MaxDepth :
             \/ /\ d < workers[w].latestDepth
                /\ UNCHANGED <<latest, workers, amu>>
             \/ /\ d >= workers[w].latestDepth
                /\ updateLatest(w, k, d)
                /\ workers' = [workers EXCEPT ![w].latestDepth = d, ![w].pc = "upsert"]
    /\ UNCHANGED <<jobs, evals, callers, runnerVars, eng, bcastVars, readerVars, schedVars>>

\* run, lines 133-161: one line read from the engine with ReadLine, which has
\* no deadline.  A progress line whose depth is below the worker's latestDepth
\* is skipped; an accepted one is stored by updateLatest.
WorkerRead(w) ==
    /\ workers[w].pc = "read"
    /\ LET k == workers[w].key IN
       \/ /\ updateError(k, "engine read error")
          /\ workers' = [workers EXCEPT ![w].pc = "defer",
                                        ![w].err = "engine read error"]
       \/ /\ updateDone(k)
          /\ workers' = [workers EXCEPT ![w].pc = "defer"]
       \/ \E d \in 1..MaxDepth :
             \/ /\ d < workers[w].latestDepth
                /\ UNCHANGED <<latest, workers, amu>>
             \/ /\ d >= workers[w].latestDepth
                /\ updateLatest(w, k, d)
                /\ workers' = [workers EXCEPT ![w].latestDepth = d, ![w].pc = "upsert"]
    /\ UNCHANGED <<jobs, evals, callers, runnerVars, eng, bcastVars, readerVars, schedVars>>

\* updateLatest, lines 172-181: UpsertEval of the accepted update, outside
\* a.mu; the row of the key is replaced.
WorkerUpsert(w) ==
    /\ workers[w].pc = "upsert"
    /\ evals' = [evals EXCEPT ![workers[w].key] = workers[w].latestDepth]
    /\ workers' = [workers EXCEPT ![w].pc = "read"]
    /\ UNCHANGED <<jobs, latest, callers, amu, runnerVars, eng, bcastVars, readerVars, schedVars>>

\* updateLatest, lines 172-181, with a database that refuses the write:
\* UpsertEval returns an error, which is dropped (_ =), and the loop goes on.
UpsertFails(w) ==
    /\ workers[w].pc = "upsert"
    /\ workers' = [workers EXCEPT ![w].pc = "read"]
    /\ UNCHANGED <<jobs, latest, evals, callers, amu, runnerVars, eng, bcastVars,
                   readerVars, schedVars>>

\* run, lines 91-95 and 118: the deferred eng.Close() (if Start succeeded),
\* then the deferred delete(a.jobs, key) under a.mu; the goroutine ends.
WorkerExit(w) ==
    /\ workers[w].pc = "defer"
    /\ amu = 0
    /\ jobs' = jobs \ {workers[w].key}
    /\ workers' = [workers EXCEPT ![w] = NoWorker]
    /\ UNCHANGED <<latest, evals, callers, amu, runnerVars, eng, bcastVars, readerVars, schedVars>>

WorkerStep(w) ==
    \/ WorkerSetup(w) \/ WorkerRead(w) \/ WorkerUpsert(w) \/ WorkerExit(w)

\* The engine of worker w writes nothing more and keeps its stream open: the
\* worker stays in ReadLine (line 134), which has no deadline; the job's
\* cancel function is stored in a.jobs (line 81) and never called.
EngineHangs(w) ==
    /\ workers[w].pc = "read"
    /\ workers' = [workers EXCEPT ![w].pc = "hung"]
    /\ UNCHANGED <<jobs, latest, evals, callers, amu, runnerVars, eng, bcastVars,
                   readerVars, schedVars>>

\* ----------------------------------------------------------- Scheduler
\* The repository holds two versions of the Runner's selection step: the
\* store's GetAndToggleAssignment with its cursor (NextPairIndex,
\* NextPairSwap) in the configuration file ("cursor"), and selectAssignment
\* with the play counts and the Runner's pickIdx ("pick").  skind tells which
\* of them the build runs.
Runners == {"r1", "r2"}

\* An ordered candidate is <<white, black>>; NoCand is the empty assignment,
\* ErrCand stands for a call that returned an error.
NoCand == <<"", "">>
ErrCand == <<"error", "write config">>
Cand(a) == <<a.White, a.Black>>
Cursor(c) == [idx |-> c.idx, swap |-> c.swap]

\* selectAssignment, lines 75-83: a self-pair gives one ordered candidate, any
\* other pair two.
RECURSIVE candidates(_)
candidates(vp) ==
    IF vp = <<>> THEN <<>>
    ELSE (IF Head(vp)[1] = Head(vp)[2]
            THEN << <<Head(vp)[1], Head(vp)[1]>> >>
            ELSE << <<Head(vp)[1], Head(vp)[2]>>, <<Head(vp)[2], Head(vp)[1]>> >>)
         \o candidates(Tail(vp))

\* The ordered candidates of the (unedited) pairing set.
Cands == candidates(validPairs(cfg))

\* selectAssignment, lines 85-92: the smallest count of a candidate.
minCount(cs, cnt) ==
    CHOOSE m \in {cnt[cs[i]] : i \in 1..Len(cs)} :
        \A i \in 1..Len(cs) : m <= cnt[cs[i]]

\* selectAssignment, lines 94-103: the candidates at the smallest count.
filtered(cs, cnt) ==
    LET f == SelectSeq(cs, LAMBDA x : cnt[x] = minCount(cs, cnt))
    IN IF f = <<>> THEN cs ELSE f

\* selectAssignment: the candidate chosen for cursor pick, and the next cursor.
selectAssignment(c, cnt, pick) ==
    LET cs == candidates(validPairs(c)) IN
    IF cs = <<>> THEN [cand |-> NoCand, next |-> 0]
    ELSE LET f == filtered(cs, cnt)
             idx == IF pick < 0 \/ pick >= Len(f) THEN 0 ELSE pick
         IN [cand |-> f[idx + 1], next |-> (idx + 1) % Len(f)]

ZeroCounts == [x \in Engines \X Engines |-> 0]
\* statsOk tells whether the caller's last read of the play counts succeeded.
IdleRunner ==
    [pc |-> "idle", idx |-> 0, swap |-> FALSE, res |-> NoCand, statsOk |-> TRUE]

\* The assignments returned by the last (at most as many as there are
\* candidates) scheduling calls, each of which started from the cursor its
\* predecessor left, made since the play counts last changed and since a call
\* last failed.
Window(h) == IF Len(h) > Len(Cands) THEN Tail(h) ELSE h

\* A call has returned candidate cand: it enters the window, and lastMin tells
\* whether its play count was the smallest of all candidates.
Note(cand) ==
    /\ hist' = IF cand = NoCand THEN hist ELSE Window(Append(hist, cand))
    /\ lastMin' = (cand = NoCand \/ counts[cand] = minCount(Cands, counts))

\* os.WriteFile on the configuration file starts to fail / works again.
DiskFails ==
    /\ sdiskOk
    /\ sdiskOk' = FALSE
    /\ UNCHANGED <<skind, sdisk, smu, sched, pickIdx, counts, hist, slog, s0,
                   allCounted, lastMin, lastCursor, runnerVars, eng, bcastVars,
                   analyzerVars, readerVars>>

DiskRecovers ==
    /\ ~sdiskOk
    /\ sdiskOk' = TRUE
    /\ UNCHANGED <<skind, sdisk, smu, sched, pickIdx, counts, hist, slog, s0,
                   allCounted, lastMin, lastCursor, runnerVars, eng, bcastVars,
                   analyzerVars, readerVars>>

\* GetAndToggleAssignment that does not wait for the store's mutex.
SchedLock_NoMutex(c) ==
    /\ skind = "cursor"
    /\ sched[c].pc = "idle"
    /\ Len(slog) < MaxCalls
    /\ smu' = c
    /\ sched' = [sched EXCEPT ![c] = [IdleRunner EXCEPT !.pc = "read"]]
    /\ UNCHANGED <<skind, sdisk, sdiskOk, pickIdx, counts, hist, slog, s0,
                   allCounted, lastMin, lastCursor, runnerVars, eng, bcastVars,
                   analyzerVars, readerVars>>

\* GetAndToggleAssignment, line 95: s.mu.Lock().
SchedLock(c) ==
    /\ skind = "cursor"
    /\ sched[c].pc = "idle"
    /\ Len(slog) < MaxCalls
    /\ smu = ""
    /\ smu' = c
    /\ sched' = [sched EXCEPT ![c] = [IdleRunner EXCEPT !.pc = "read"]]
    /\ UNCHANGED <<skind, sdisk, sdiskOk, pickIdx, counts, hist, slog, s0,
                   allCounted, lastMin, lastCursor, runnerVars, eng, bcastVars,
                   analyzerVars, readerVars>>

\* GetAndToggleAssignment, lines 139 and 152: the cursor is read.
SchedRead(c) ==
    /\ sched[c].pc = "read"
    /\ sched' = [sched EXCEPT ![c] = [@ EXCEPT !.pc = "write", !.idx = cfg.idx,
                                                !.swap = cfg.swap]]
    /\ UNCHANGED <<skind, sdisk, sdiskOk, smu, pickIdx, counts, hist, slog, s0,
                   allCounted, lastMin, lastCursor, runnerVars, eng, bcastVars,
                   analyzerVars, readerVars>>

\* GetAndToggleAssignment, lines 143-170: the assignment for the cursor that
\* was read, the cursor moved on in s.cfg, then saveLocked; if the file cannot
\* be written the call returns the error (s.cfg keeps the moved cursor).
SchedWrite(c) ==
    /\ sched[c].pc = "write"
    /\ LET mine == [cfg EXCEPT !.idx = sched[c].idx, !.swap = sched[c].swap]
           a == Cand(Assignment(mine))
       IN /\ cfg' = Toggle(mine)
          /\ \/ /\ sdiskOk
                /\ sdisk' = Cursor(Toggle(mine))
                /\ sched' = [sched EXCEPT ![c] = [@ EXCEPT !.pc = "unlock", !.res = a]]
                /\ slog' = Append(slog, a)
                /\ lastCursor' = Cursor(Toggle(mine))
                /\ Note(a)
             \/ /\ ~sdiskOk
                /\ sched' = [sched EXCEPT ![c] = [@ EXCEPT !.pc = "unlock",
                                                           !.res = ErrCand]]
                /\ slog' = Append(slog, ErrCand)
                /\ hist' = <<>>
                /\ UNCHANGED <<sdisk, lastCursor, lastMin>>
    /\ UNCHANGED <<skind, sdiskOk, smu, pickIdx, counts, s0, allCounted,
                   loopVars, eng, bcastVars, analyzerVars, readerVars>>

\* GetAndToggleAssignment: the deferred s.mu.Unlock() and the return.  With an
\* assignment the caller goes on to play the game; with an error or an empty
\* assignment it pauses and calls again.
SchedUnlock(c) ==
    /\ sched[c].pc = "unlock"
    /\ smu' = IF smu = c THEN "" ELSE smu
    /\ sched' = [sched EXCEPT ![c] = [@ EXCEPT !.pc =
                    IF sched[c].res \in {NoCand, ErrCand} THEN "idle" ELSE "game"]]
    /\ UNCHANGED <<skind, sdisk, sdiskOk, pickIdx, counts, hist, slog, s0,
                   allCounted, lastMin, lastCursor, runnerVars, eng, bcastVars,
                   analyzerVars, readerVars>>

\* loop (selectAssignment version), lines 436-446: the play counts are read (a
\* failed read is logged and leaves the counts empty), selectAssignment chooses
\* with r.pickIdx, and r.pickIdx takes the next cursor.
SelectCall ==
    /\ skind = "pick"
    /\ sched["r1"].pc = "idle"
    /\ Len(slog) < MaxCalls
    /\ \E statsOk \in BOOLEAN :
          LET r == selectAssignment(cfg, IF statsOk THEN counts ELSE ZeroCounts,
                                    pickIdx)
          IN /\ pickIdx' = r.next
             /\ sched' = [sched EXCEPT !["r1"] =
                            [IdleRunner EXCEPT !.res = r.cand, !.statsOk = statsOk,
                                 !.pc = IF r.cand = NoCand THEN "idle" ELSE "game"]]
             /\ slog' = Append(slog, r.cand)
             /\ lastCursor' = [idx |-> r.next, swap |-> FALSE]
             /\ Note(r.cand)
    /\ UNCHANGED <<skind, sdisk, sdiskOk, smu, counts, s0, allCounted,
                   runnerVars, eng, bcastVars, analyzerVars, readerVars>>

\* The scheduled game has ended and its row is in the games table: its ordered
\* pair's play count goes up.
GameCounted(c) ==
    /\ sched[c].pc = "game"
    /\ counts[sched[c].res] < MaxCount
    /\ counts' = [counts EXCEPT ![sched[c].res] = @ + 1]
    /\ hist' = <<>>
    /\ sched' = [sched EXCEPT ![c] = [@ EXCEPT !.pc = "idle"]]
    /\ UNCHANGED <<skind, sdisk, sdiskOk, smu, pickIdx, slog, s0, allCounted,
                   lastMin, lastCursor, runnerVars, eng, bcastVars,
                   analyzerVars, readerVars>>

\* The scheduled game has ended without a row (failGame).
GameNotCounted(c) ==
    /\ sched[c].pc = "game"
    /\ allCounted' = FALSE
    /\ sched' = [sched EXCEPT ![c] = [@ EXCEPT !.pc = "idle"]]
    /\ UNCHANGED <<skind, sdisk, sdiskOk, smu, pickIdx, counts, hist, slog, s0,
                   lastMin, lastCursor, runnerVars, eng, bcastVars,
                   analyzerVars, readerVars>>

\* The process ends and is started again: the store loads the configuration
\* file (loadOrInit), NewRunner builds a Runner whose pickIdx is zero; the
\* games table keeps its rows; a game that was being played is lost.
ProcessRestart ==
    /\ smu = ""
    /\ \A c \in Runners : sched[c].pc \in {"idle", "game"}
    /\ cfg' = [cfg EXCEPT !.idx = sdisk.idx, !.swap = sdisk.swap]
    /\ pickIdx' = 0
    /\ sched' = [c \in Runners |-> IdleRunner]
    /\ allCounted' = (allCounted /\ \A c \in Runners : sched[c].pc # "game")
    /\ hist' = <<>>
    /\ UNCHANGED <<skind, sdisk, sdiskOk, smu, counts, slog, s0, lastMin,
                   lastCursor, loopVars, eng, bcastVars, analyzerVars, readerVars>>

\* The steps of one scheduling call of caller c through the store.
SchedStep(c) ==
    \/ SchedLock(c) \/ SchedRead(c) \/ SchedWrite(c) \/ SchedUnlock(c)

\* ---------------------------------------------------------------- Init
InitRunnerCfg(c0) ==
    /\ pc = "top"
    /\ phase = "none"
    /\ stopped = FALSE
    /\ restartTok = 0
    /\ live = [GameID |-> 0, Status |-> "starting", Result |-> "", Moves |-> 0]
    /\ seq = 0
    /\ cfg = c0
    /\ asg = EmptyAssignment
    /\ deferred = <<>>
    /\ moves = 0
    /\ bookPlies = 0
    /\ outcome = "NoOutcome"
    /\ best = ""
    /\ records = <<>>
    /\ term = ""
    /\ stopCall = [t \in Stoppers |-> "idle"]
    /\ panicked = FALSE
    /\ bookFile = 1
    /\ bookMod = 0
    /\ eng = [c \in Clients |-> NewUCIEngine]

InitRunnerWith(p, b) ==
    InitRunnerCfg([pairs |-> p, idx |-> 0, swap |-> FALSE, book |-> b,
                   maxPlies |-> MaxPliesCfg, bookMaxPlies |-> BookMaxPliesCfg])

InitRunner == \E p \in ConfigPairs, b \in BOOLEAN : InitRunnerWith(p, b)

\* A Runner that has not been started and has nothing configured.
RunnerAtRest == InitRunnerWith(<<>>, FALSE)

InitBroadcaster ==
    /\ bnext = 0
    /\ subs = <<>>
    /\ closed = [id \in 0..(MaxSubs - 1) |-> [n |-> 0, calls |-> 0]]

InitReader == snap = NoSnap /\ pulsed = [game |-> 0, moves |-> 0]

\* The configuration file holds the cursor the store has loaded; nothing has
\* been scheduled or played.
InitSchedulerWith(k) ==
    /\ skind = k
    /\ sdisk = Cursor(cfg)
    /\ sdiskOk = TRUE
    /\ smu = ""
    /\ sched = [c \in Runners |-> IdleRunner]
    /\ pickIdx = 0
    /\ counts = ZeroCounts
    /\ hist = <<>>
    /\ slog = <<>>
    /\ s0 = cfg
    /\ allCounted = TRUE
    /\ lastMin = TRUE
    /\ lastCursor = IF k = "cursor" THEN Cursor(cfg) ELSE [idx |-> 0, swap |-> FALSE]

SchedulerAtRest == InitSchedulerWith("cursor")

\* A configuration file with any pairing set and any cursor value.
InitStore ==
    \E p \in ConfigPairs, i \in (-1)..MaxCursor, sw \in BOOLEAN :
        InitRunnerCfg([pairs |-> p, idx |-> i, swap |-> sw, book |-> FALSE,
                       maxPlies |-> MaxPliesCfg, bookMaxPlies |-> BookMaxPliesCfg])

InitAnalyzer ==
    /\ jobs = {}
    /\ latest = [k \in Keys |-> NoInfo]
    /\ evals = [k \in Keys |-> 0]
    /\ workers = [w \in Slots |-> NoWorker]
    /\ callers = [c \in Callers |-> IdleCaller]
    /\ amu = 0

Init == InitRunner /\ InitBroadcaster /\ InitAnalyzer /\ InitReader /\ SchedulerAtRest

\* The Runner: its loop, its two clients, and Stop / Restart from other tasks.
Next ==
    \/ LoopStep
    \/ \E c \in Clients : ClientStep(c)
    \/ Stop
    \/ Restart

Spec == Init /\ [][Next]_vars

\* The Go scheduler runs every runnable goroutine; timers fire; the kill that
\* follows a cancelled context happens.  Stop and Restart are never forced.
FairSpec ==
    /\ Spec
    /\ WF_vars(LoopStep)
    /\ \A c \in Clients :
          WF_vars(CallStep(c)) /\ WF_vars(Deadline(c)) /\ WF_vars(KillOnCancel(c))


\* Restart() called while no game is running: the Runner is starting, idle,
\* pausing or between two games.
IdleRestart == live.Status # "running" /\ Restart

\* The Runner with Restart() requests that are made only while no game is
\* running.
RestartNext ==
    \/ LoopStep
    \/ \E c \in Clients : ClientStep(c)
    \/ IdleRestart

RestartSpec == Init /\ [][RestartNext]_vars

\* The Runner with two tasks that call Stop() at any time, each call in its
\* two steps; a panic ends the process.
RunnerAlive == ~panicked /\ (LoopStep \/ \E c \in Clients : ClientStep(c))

StopNext ==
    \/ RunnerAlive
    \/ \E t \in Stoppers : StopCheck(t) \/ StopClose(t)

StopSpec == Init /\ [][StopNext]_vars

\* The Runner in self-play with the book enabled for more than one ply, and a
\* book file that is written again while the Runner runs.
BookInit ==
    /\ InitRunnerCfg([pairs |-> << <<"A", "A">> >>, idx |-> 0, swap |-> FALSE,
                      book |-> TRUE, maxPlies |-> MaxPliesCfg + 1,
                      bookMaxPlies |-> BookMaxPliesCfg + 1])
    /\ InitBroadcaster /\ InitAnalyzer /\ InitReader /\ SchedulerAtRest

BookNext ==
    \/ LoopStep
    \/ \E c \in Clients : ClientStep(c)
    \/ BookFileChanges

BookSpec == BookInit /\ [][BookNext]_vars

\* The Runner with a reader that calls Live() at any time.
LiveNext == Next \/ Live

LiveSpec == Init /\ [][LiveNext]_vars

\* The Broadcaster with subscribers that come, receive and go.
BroadcasterNext ==
    \/ PublishCall
    \/ Subscribe
    \/ \E id \in 0..(MaxSubs - 1) : Unsubscribe(id) \/ Receive(id)

BroadcasterInit ==
    RunnerAtRest /\ InitBroadcaster /\ InitAnalyzer /\ InitReader /\ SchedulerAtRest

BroadcasterSpec == BroadcasterInit /\ [][BroadcasterNext]_vars

\* The Analyzer with two callers and the workers they start.
AnalyzerNext ==
    \/ \E c \in Callers : (\E k \in Keys : EnsureRead(c, k)) \/ EnsureLocked(c)
    \/ \E c \in Callers, k \in Keys : Latest(c, k)
    \/ \E w \in Slots : WorkerStep(w)

AnalyzerInit ==
    RunnerAtRest /\ InitBroadcaster /\ InitAnalyzer /\ InitReader /\ SchedulerAtRest

AnalyzerSpec == AnalyzerInit /\ [][AnalyzerNext]_vars

\* The Analyzer with one caller, engines that may stop responding and a
\* database that may refuse a write; every
\* worker goroutine that can take a step takes it (the Go scheduler, and an
\* engine that has not stopped responding writes a line or closes its stream).
WorkerNext ==
    \/ (\E k \in Keys : EnsureRead("c1", k)) \/ EnsureLocked("c1")
    \/ \E k \in Keys : Latest("c1", k)
    \/ \E w \in Slots : WorkerStep(w) \/ EngineHangs(w) \/ UpsertFails(w)

WorkerFairSpec ==
    /\ AnalyzerInit
    /\ [][WorkerNext]_vars
    /\ \A w \in Slots : WF_vars(WorkerStep(w))

\* The Scheduler of one Runner, of either version, with games that are counted
\* or not, a configuration file that can fail, and process restarts.
SchedulerNext ==
    \/ SchedStep("r1")
    \/ SelectCall
    \/ GameCounted("r1")
    \/ GameNotCounted("r1")
    \/ DiskFails
    \/ DiskRecovers
    \/ ProcessRestart

SchedulerInit ==
    /\ InitStore /\ InitBroadcaster /\ InitAnalyzer /\ InitReader
    /\ \E k \in {"cursor", "pick"} : InitSchedulerWith(k)

SchedulerSpec == SchedulerInit /\ [][SchedulerNext]_vars

\* Two Runners that call the store's GetAndToggleAssignment concurrently.
SchedLockNext ==
    \/ \E c \in Runners : SchedStep(c) \/ GameCounted(c) \/ GameNotCounted(c)
    \/ DiskFails
    \/ DiskRecovers

SchedLockInit ==
    /\ InitStore /\ InitBroadcaster /\ InitAnalyzer /\ InitReader
    /\ SchedulerAtRest

SchedLockSpec == SchedLockInit /\ [][SchedLockNext]_vars

\* The Runner with a subscriber that subscribed before the loop began and
\* takes its pulses at any time.
PulseInit ==
    /\ InitRunner /\ InitAnalyzer /\ InitReader /\ SchedulerAtRest
    /\ bnext = 1
    /\ subs = [id \in {0} |-> [buf |-> 0, coalesced |-> FALSE]]
    /\ closed = [id \in 0..(MaxSubs - 1) |-> [n |-> 0, calls |-> 0]]

PulseNext == Next \/ Receive(0)

PulseSpec == PulseInit /\ [][PulseNext]_vars

\* ================================================================ claims
\* The game of this iteration has ended and its function is returning.
GameOver ==
    /\ pc \in {"ret", "closing", "cancel", "pause"}
    /\ live.Status = "finished"

FailureTerms ==
    {"white start error", "black start error", "white init error",
     "black init error", "white newgame error", "black newgame error",
     "bestmove error", "engine returned no move", "illegal move from engine"}

\* The step from the signal check to the next move request or game end.
InPlyLoop ==
    \/ pc \in {"ply_select", "ply_check", "ply_move", "ply_apply", "ply_pub"}
    \/ pc = "call" /\ phase = "best"

\* C1: every game that began and has ended, for whatever reason, has exactly
\* one row written by InsertFinishedGame, carrying its players, result,
\* termination, move list and book-ply count.
C1_OneRecordPerGame ==
    GameOver =>
        /\ Len(records) = 1
        /\ records[1].game = live.GameID
        /\ records[1].white = asg.White /\ records[1].black = asg.Black
        /\ records[1].result = live.Result
        /\ records[1].termination = term
        /\ records[1].moves = moves
        /\ records[1].bookPlies = bookPlies

\* C2: once Stop() has been called the loop eventually returns, and no new
\* game is begun after the call (no assignment selection, no 'running').
C2_StopIsFinal ==
    /\ [](stopped => <>(pc = "returned"))
    /\ [][stopped => (seq' = seq /\ ~(pc = "select" /\ pc' # "select"))]_vars

\* C3: a Restart() pending while a game is in its ply loop ends that game
\* before any further move is requested, and the loop goes on to its next
\* iteration.
C3_RestartEndsGame ==
    /\ []((InPlyLoop /\ restartTok > 0) => <>(pc = "top"))
    /\ [][(InPlyLoop /\ restartTok > 0) => ~(pc = "ply_move" /\ pc' # "ply_move")]_vars

\* C4: when an iteration of the loop finishes, every engine process spawned
\* for its game has exited and has been waited for (released).
C4_EnginesReleased ==
    pc = "pause" => \A c \in Clients : eng[c].proc \in {"none", "reaped"}

\* C5: a failed game never makes the outer loop exit: after a failure the loop
\* comes back to the top of the outer loop, which it leaves for the next
\* assignment selection unless stop was signalled; only the stop check at the
\* top makes the loop return.
C5_FailureNeverExits ==
    /\ []((pc = "ret" /\ term \in FailureTerms) => <>(pc = "top"))
    /\ [][(pc # "returned" /\ pc' = "returned") => (pc = "top" /\ stopped)]_vars
    /\ [][(pc = "top" /\ pc' # "top" /\ ~stopped) => pc' = "select"]_vars

\* C5 witness: the loop is at an assignment selection right after a game that
\* failed.
C5_Witness ==
    /\ pc = "select"
    /\ term \in FailureTerms
    /\ live.Status = "finished"

\* C6: an engine that falls silent, its stream open, while the Runner waits
\* for its best move does not block the Runner forever: the wait ends.
C6_HungBestMoveEnds ==
    \A c \in Clients :
        []((eng[c].step = "bm_read" /\ eng[c].hung) => <>(eng[c].step # "bm_read"))

\* C7: Start and IsReady never block indefinitely on an engine that does not
\* write the acknowledgment, whether it writes other lines or nothing: the
\* wait in ReadUntilPrefix ends.
C7_HandshakeTimesOut ==
    \A c \in Clients :
        [](eng[c].step \in RupSteps => <>(eng[c].step \notin RupSteps))


\* C8: at any time at most one worker is running for a position key, and a
\* key has a job entry exactly while its worker runs.
C8_SingleFlight ==
    \A k \in Keys :
        /\ Cardinality(Running(k)) <= 1
        /\ (k \in jobs) = (Running(k) # {})

\* C8 witness: two calls for one key that has no running worker are in
\* flight together, both past the cache read, while another key has a worker.
C8_Witness ==
    /\ \A c \in Callers : callers[c].pc = "lock" /\ callers[c].key = "k1"
    /\ "k1" \notin jobs
    /\ Running("k2") # {}

\* C9: while a worker is running for a key, the depth of the key's record
\* never decreases.
C9_DepthNeverDecreases ==
    [][\A k \in Keys :
          (k \in jobs /\ k \in jobs') => latest'[k].Depth >= latest[k].Depth]_vars

\* C10: no subscriber's channel ever holds more than one undelivered pulse.
C10_OnePulseBuffered ==
    \A id \in DOMAIN subs : subs[id].buf <= 1

\* C10 witness: a Publish() found a subscriber's slot full and dropped its
\* pulse; the subscriber still has exactly one pulse buffered.
C10_Witness ==
    \E id \in DOMAIN subs : subs[id].coalesced /\ subs[id].buf = 1

\* C11: Publish() never waits for a subscriber: in every state, whatever the
\* subscribers' slots hold and whoever has gone, a Publish() call can run to
\* its end.
C11_PublishNeverWaits == ENABLED PublishCall

\* C11 witness: a Publish() went through although a subscriber's slot was
\* full, and another subscriber has disconnected.
C11_Witness ==
    /\ \E id \in DOMAIN subs : subs[id].buf = SlotCap /\ subs[id].coalesced
    /\ \E id \in DOMAIN closed : closed[id].n > 0

\* C12: a channel that unsubscribe has released is not in the table Publish()
\* sends to, and no channel is closed twice, however often unsubscribe is
\* called.
C12_NoSendAfterUnsubscribe ==
    \A id \in DOMAIN closed :
        /\ closed[id].n <= 1
        /\ closed[id].n = 1 => id \notin DOMAIN subs
        /\ closed[id].calls > 0 => closed[id].n = 1

\* C12 witness: unsubscribe was called twice for a subscriber, and a later
\* Publish() has put a pulse into the slot of a subscriber that is still there.
C12_Witness ==
    /\ \E id \in DOMAIN closed : closed[id].calls = 2 /\ closed[id].n = 1
    /\ \E id \in DOMAIN subs : subs[id].buf = 1

\* The terminations of a game ended by a signal.
SignalTerms == {"service stopping", "restarted by admin"}

\* The game has ended with the ply cap reached and no outcome from the oracle.
EndedAtCap == GameOver /\ moves >= cfg.maxPlies /\ outcome = "NoOutcome"

\* The record of a game ended by the ply cap: one row, a draw, 'Max plies'.
MaxPliesRecorded ==
    /\ term = "Max plies"
    /\ live.Result = "1/2-1/2"
    /\ Len(records) = 1
    /\ records[1].result = "1/2-1/2"
    /\ records[1].termination = "Max plies"
    /\ records[1].moves = cfg.maxPlies

C18_ReasonRecorded ==
    (GameOver /\ term \in (FailureTerms \cup SignalTerms)) =>
        \/ live.Result = term
        \/ \E i \in 1..Len(records) :
              records[i].game = live.GameID /\ records[i].termination = term

\* C19: a worker that has met an engine or process error has put the error
\* text into its position's record and does nothing more but end; a record
\* keeps an error text once it has one, so Latest / EnsureAnalysis return it
\* as a field; and a worker is started only by an EnsureAnalysis call, never
\* by the Analyzer after a failure.
C19_WorkerErrorRecorded ==
    /\ [](\A w \in Slots :
            workers[w].err # "" =>
                /\ workers[w].pc = "defer"
                /\ latest[workers[w].key].Err = workers[w].err)
    /\ [][\A w \in Slots :
            workers[w].err # "" => workers'[w] \in {workers[w], NoWorker}]_vars
    /\ [][\A k \in Keys : latest[k].Err # "" => latest'[k].Err # ""]_vars
    /\ [][\A w \in Slots :
            (workers[w].pc = "none" /\ workers'[w].pc # "none") =>
                \E c \in Callers :
                    /\ callers[c].pc = "lock" /\ callers'[c].pc = "idle"
                    /\ callers[c].key = workers'[w].key]_vars

\* C19 witness: a worker whose engine failed after a progress line is ending;
\* its record carries the depth reached and the error text, and no other
\* worker has been started for the key.
C19_Witness ==
    \E w \in Slots :
        /\ workers[w].err = "engine read error"
        /\ latest[workers[w].key].Depth > 0
        /\ latest[workers[w].key].Err = "engine read error"
        /\ Running(workers[w].key) = {w}

EqualCounts ==
    \A i, j \in 1..Len(Cands) : counts[Cands[i]] = counts[Cands[j]]

NoDup(h) == \A i, j \in 1..Len(h) : i # j => h[i] # h[j]

C14_LeastPlayedFirst == allCounted => lastMin

\* The cursor the next scheduling call of the running build starts from.
EffCursor ==
    IF skind = "cursor" THEN Cursor(cfg) ELSE [idx |-> pickIdx, swap |-> FALSE]

\* C15: after a process restart the next scheduling call starts from the cursor
\* left by the last scheduling call that returned an assignment.
C15_CursorDurable == [][ProcessRestart => EffCursor' = lastCursor]_vars

\* The configuration after the scheduling calls of log, made one after the
\* other from configuration c.
RECURSIVE After(_, _)
After(c, log) == IF log = <<>> THEN c ELSE After(Toggle(c), Tail(log))

\* log is what scheduling calls made one after the other from configuration c
\* return (a call that cannot write the file returns the error).
RECURSIVE SerialRun(_, _)
SerialRun(c, log) ==
    \/ log = <<>>
    \/ /\ Head(log) \in {ErrCand, Cand(Assignment(c))}
       /\ SerialRun(Toggle(c), Tail(log))

\* C16: concurrent scheduling calls return what the same calls made one after
\* the other return and leave the cursor those leave: no cursor position is
\* handed out twice, none is skipped, and at most one call is between its
\* cursor read and its return.
C16_CallsSerialize ==
    /\ SerialRun(s0, slog)
    /\ Cursor(cfg) = Cursor(After(s0, slog))
    /\ Cardinality({c \in Runners : sched[c].pc \in {"read", "write", "unlock"}}) <= 1

\* C16 witness: two calls have returned and both Runners are playing the games
\* they were given, which are those of two consecutive cursor positions.
C16_Witness ==
    /\ \A c \in Runners : sched[c].pc = "game"
    /\ sched["r1"].res # sched["r2"].res
    /\ Len(slog) = 2

\* C21: a client is sent a readiness, new-game or search command (any command
\* but the handshake's) only after its handshake has completed; once a call on
\* it has returned an I/O error it is sent no further command, and it has been
\* closed (its process, if it had one, has exited and been waited for) when the
\* iteration ends.
C21_ClientLifecycle ==
    /\ [][\A c \in Clients : (Send(c) /\ eng[c].op # "Start") => eng[c].ready]_vars
    /\ [][\A c \in Clients : eng[c].failed => ~(Send(c) \/ CloseQuit(c))]_vars
    /\ [](pc = "pause" =>
            \A c \in Clients : eng[c].failed => eng[c].proc \in {"none", "reaped"})

\* C22: a Close() that has been entered returns, and when it has returned the
\* client's input stream is closed and its process has exited and been waited
\* for; Close kills the process only if it is still running while Close waits
\* for it.
C22_CloseReaps ==
    /\ \A c \in Clients :
          [](eng[c].op = "Close" => <>(eng[c].op = "Close" /\ eng[c].step = "done"))
    /\ [](\A c \in Clients :
            (eng[c].op = "Close" /\ eng[c].step = "done") =>
                (eng[c].proc = "reaped" /\ eng[c].stdin = "closed"))
    /\ [][\A c \in Clients :
            (eng'[c].killed /\ ~eng[c].killed) =>
                (eng[c].proc = "running" /\ eng[c].step = "close_wait")]_vars

\* C22 witness: Close has returned after it had to kill the process.
C22_Witness ==
    \E c \in Clients :
        eng[c].op = "Close" /\ eng[c].step = "done" /\ eng[c].killed

\* The line is a best-move marker without a move token.
NoToken(l) == l # <<>> /\ l[1] = "bestmove" /\ Len(Fields(l)) < 2

\* C23: BestMoveMovetime returns an error, and neither a move nor to its
\* reading, when the engine's stream has ended before a best-move line and
\* when the line it has read is a best-move marker without a move token.
C23_BestMoveErrors ==
    /\ [][\A c \in Clients :
            (eng[c].step = "bm_read" /\ eng[c].proc = "exited" /\ eng'[c] # eng[c])
                => (eng'[c].step = "done" /\ eng'[c].res = "eof")]_vars
    /\ [](\A c \in Clients :
            (eng[c].op = "Best" /\ NoToken(eng[c].line))
                => (eng[c].step = "done" /\ eng[c].res \notin {"", "ok"}))

\* No enabled pairing names two engines that are both present.
NoValidPair == Len(validPairs(cfg)) = 0

\* C24: while no enabled pairing is valid, the scheduler's assignment is the
\* empty one, no engine process is started, no
\* game is begun and no record written; a selection step that gets an
\* assignment (and no error) puts the Runner in the idle state, and from there
\* the loop comes back to a further selection unless it is stopped.
C24_IdleWithoutPairs ==
    /\ [](NoValidPair =>
            /\ Assignment(cfg) = EmptyAssignment
            /\ selectAssignment(cfg, counts, pickIdx).cand = NoCand
            /\ \A c \in Clients : eng[c].proc = "none" /\ eng[c].op = "none"
            /\ records = <<>> /\ seq = 0
            /\ live.Status \in {"starting", "idle", "error"})
    /\ [][(NoValidPair /\ pc = "select" /\ pc' # "select" /\ live'.Status # "error")
            => live'.Status = "idle"]_vars
    /\ []((NoValidPair /\ live.Status = "idle" /\ pc = "cancel")
            => <>(pc \in {"select", "returned"}))

\* C24 witness: the only pairing names a removed engine; the Runner has been
\* idle for one iteration and is at its next selection.
C24_Witness ==
    /\ NoValidPair /\ cfg.pairs # <<>>
    /\ live.Status = "idle"
    /\ pc = "select"

\* C25: a Runner whose read of the configuration or of the play counts has
\* failed starts no game in that iteration.
C25_ReadFailureStartsNoGame ==
    \A c \in Runners :
        sched[c].pc = "game" => (sched[c].statsOk /\ sched[c].res # ErrCand)

\* C26: when an init line has been sent to an engine, the next command the
\* client sends is the readiness request (whose acknowledgment it then waits
\* for), not a further init line.
C26_ReadyAfterEachInitLine ==
    [][\A c \in Clients :
         (eng[c].step = "init_send" /\ eng'[c] # eng[c])
             => eng'[c].step \in {"send", "done"}]_vars

\* C27: in a self-play game only the White client exists as a process, every
\* search is requested from it, its Close is registered at most once, and when
\* the iteration ends the process that was spawned for it has been closed.
C27_SelfplayOneClient ==
    asg.Selfplay =>
        /\ eng["b"].proc = "none" /\ eng["b"].op = "none"
        /\ deferred \in {<<>>, <<"w">>}
        /\ (pc = "call" /\ phase = "best") => eng["w"].op = "Best"
        /\ (pc = "pause" /\ eng["w"].proc # "none") => eng["w"].proc = "reaped"

\* C28: at most one client is in a search at any time, and only while the
\* Runner waits for it, every applied ply being in the LiveState; it is the
\* client of the side to move, and the position command that precedes its
\* search command carries all the moves applied so far.
C28_OneSearchAtATime ==
    /\ Cardinality({c \in Clients : eng[c].op = "Best"}) <= 1
    /\ \A c \in Clients :
          eng[c].op = "Best" =>
              /\ pc = "call" /\ phase = "best" /\ c = SideToMove
              /\ live.Moves = moves
              /\ eng[c].step # "done" => eng[c].todo = moves

\* C28 witness: the second ply's search is under way on Black's client, which
\* is not White's, after the first move was applied.
C28_Witness ==
    /\ ~asg.Selfplay
    /\ eng["b"].op = "Best" /\ eng["b"].step = "bm_read"
    /\ eng["b"].todo = 1 /\ moves = 1

\* C29: the LiveState is never older than the applied ply for which the
\* Runner last called Publish, so whoever reads it after that pulse sees that
\* ply; whenever the Runner is about to request a move, every ply applied so
\* far is in the LiveState and has been published; and the Publish of a ply
\* leaves a pulse in every subscriber's channel.
C29_LiveBeforePulse ==
    /\ [](pulsed.game = live.GameID => live.Moves >= pulsed.moves)
    /\ []((moves > 0 /\ (pc \in {"ply_select", "ply_check", "ply_move"}
                            \/ (pc = "call" /\ phase = "best")))
            => (live.Moves = moves /\ pulsed = [game |-> seq, moves |-> moves]))
    /\ [][PlyPublish => \A id \in DOMAIN subs : subs'[id].buf = SlotCap]_vars

\* C29 witness: the subscriber has taken the pulse of the first ply and holds
\* that of the second, which the LiveState shows.
C29_Witness ==
    /\ pulsed = [game |-> live.GameID, moves |-> 2]
    /\ live.Moves = 2
    /\ subs[0].buf = 1 /\ ~subs[0].coalesced
    /\ pc = "ply_select"

\* C30: a ply is taken from the book only with the book enabled and fewer
\* plies played than the configured max book plies, and that step sends no
\* command to either engine; with max book plies or more played, the move of
\* every ply is requested from the engine of the side to move.
C30_BookOnlyBelowMax ==
    /\ [][bookPlies' > bookPlies =>
            (cfg.book /\ moves < cfg.bookMaxPlies /\ eng' = eng /\ pc' = "ply_apply")]_vars
    /\ [][(pc = "ply_move" /\ pc' # "ply_move" /\ moves >= cfg.bookMaxPlies) =>
            (pc' = "call" /\ eng'[SideToMove].op = "Best")]_vars
    /\ [](bookPlies <= cfg.bookMaxPlies /\ bookPlies <= moves + 1)

\* C30 witness: the first ply came from the book and the second is being
\* searched by Black's engine.
C30_Witness ==
    /\ bookPlies = 1 /\ moves = 1
    /\ pc = "call" /\ phase = "best"
    /\ eng[BlackClient].op = "Best"

\* The game has ended, without a signal, after a cap-th ply on which the rules
\* oracle reported an outcome.
OutcomeAtCap ==
    /\ GameOver
    /\ moves >= cfg.maxPlies
    /\ outcome # "NoOutcome"
    /\ term \notin SignalTerms

\* C34: a game whose cap-th ply produced an outcome is recorded with the
\* oracle's result and termination, never as a 'Max plies' draw.
C34_OutcomeBeforeCap ==
    OutcomeAtCap => /\ term = outcome
                    /\ live.Result = outcomeToResult(outcome)

\* Caller c's scheduling call fails in this step: the configuration file could
\* not be written.
SaveFails(c) == sched[c].pc = "write" /\ sched'[c].res = ErrCand

\* C40: a scheduling call that fails to persist the advanced cursor leaves the
\* cursor (index and swap flag) as it was before the call, so the next call
\* offers the candidate the failed call would have returned.
C40_FailedSaveKeepsCursor ==
    [][\A c \in Runners :
         SaveFails(c) =>
            /\ Cand(Assignment(cfg')) = Cand(Assignment(cfg))
            /\ PairIdx(cfg) = cfg.idx => Cursor(cfg') = Cursor(cfg)]_vars

\* The assignments of the scheduling calls that returned one, in call order.
Scheduled == SelectSeq(slog, LAMBDA x : x \notin {ErrCand, NoCand})

\* The single enabled pairing is that of two distinct engines.
OnePairing ==
    /\ Len(validPairs(cfg)) = 1
    /\ validPairs(cfg)[1][1] # validPairs(cfg)[1][2]

\* C32: with a single enabled pairing of two distinct engines and every
\* finished game counted, consecutive scheduled games alternate colours.
C32_ColoursAlternate ==
    (OnePairing /\ allCounted) =>
        \A i \in 1..(Len(Scheduled) - 1) : Scheduled[i + 1] # Scheduled[i]

\* C35: the depth stored in the durable eval cache for a position never
\* decreases, whichever search writes it.
C35_CachedDepthMonotone == [][\A k \in Keys : evals'[k] >= evals[k]]_vars

\* C36: when updateLatest has returned for an accepted progress update, both
\* the latest record and the durable cache entry of the position hold the
\* update's depth.
C36_UpdateInBothStores ==
    [][\A w \in Slots :
         (workers[w].pc = "upsert" /\ workers'[w].pc = "read") =>
            /\ latest'[workers[w].key].Depth = workers[w].latestDepth
            /\ evals'[workers[w].key] = workers[w].latestDepth]_vars

\* C37: a worker whose engine has stopped responding ends and frees its key.
C37_HungWorkerEnds ==
    \A w \in Slots :
        [](workers[w].pc = "hung" => <>(workers[w].pc = "none"))

\* A worker is at an engine start, read or close, or at a cache write.
AtIO(w) == workers[w].pc \in {"setup", "read", "hung", "upsert", "defer"}

\* C38: a.mu is never held while a worker is at an engine read or write, a
\* process start or close, or a durable-cache write, so EnsureAnalysis and
\* Latest never wait for a worker.
C38_LockNotHeldAcrossIO ==
    /\ \A w \in Slots : AtIO(w) => amu # w
    /\ \A c \in Callers : callers[c].pc = "lock" => ENABLED EnsureLocked(c)
    /\ \A c \in Callers, k \in Keys : callers[c].pc = "idle" => ENABLED Latest(c, k)

\* C38 witness: a caller is about to take a.mu for a key whose worker is at
\* its cache write, while the other key's worker is waiting in a read.
C38_Witness ==
    /\ \E c \in Callers, w \in Slots :
          /\ callers[c].pc = "lock"
          /\ workers[w].pc = "upsert"
          /\ workers[w].key = callers[c].key
    /\ \E w \in Slots : workers[w].pc = "read"

\* C31: a book is loaded only before the first lookup of a game: once a game
\* has played a move from the book, no later lookup of that game loads another
\* instance, whatever happens to the book file.
C31_OneBookPerGame ==
    [][(pc = "ply_move" /\ bookPlies > 0) => bookMod' = bookMod]_vars

\* C33: a restart request made while no game is running aborts no game: when
\* every request is made outside a game, no game ends as restarted.
C33_IdleRestartAbortsNoGame == term # "restarted by admin"

\* C39: concurrent calls of Stop never close the stop channel twice.
C39_StopNeverPanics == ~panicked

====
